---- MODULE Spec2Model ----
(***************************************************************************)
(* RS-485 dimmer bus (ha_udk_0410_dimmer/light.py): the shared link        *)
(* Rs485Module with its asyncio lock, the transaction send_and_wait_for    *)
(* (flush, write, read until ACK or deadline) and the channel controller   *)
(* Rs485Dimmer with its retry loop and cached on/off state.                *)
(*                                                                         *)
(* One step of the model is one run of a coroutine between two suspension  *)
(* points (await) of the single asyncio event loop.                        *)
(***************************************************************************)
EXTENDS Integers, Sequences, FiniteSets, TLC

(* ------------------------------ bounds --------------------------------- *)
\* number of turn_on / turn_off calls issued (each runs once)
NumCalls == 2
\* bytes returned at most by one reader.read(1024), scaled down
RdSize == 4
\* read timeouts that fit into timeout_total (0.8 s / 0.12 s), scaled down
TotalTicks == 1
\* 10 ms read timeouts that fit into the flush window (0.08 s), scaled down
FlushTicks == 2
\* frames the addressed module answers (specification Spec)
MaxAcks == 2
\* serial faults (read or write errors) the link may raise
MaxFaults == 1
\* bytes the link may deliver to one transaction (specification SpecRx)
MaxStream == 5
\* bytes a babbling line delivers beyond max_buffer (specification SpecBuf)
Overrun == 2
\* runs of async_setup_entry (specification SpecSetup)
NumSetups == 3
\* serial ports configured (specification SpecSetup)
NumPorts == 2

(* --------------------------- configuration ----------------------------- *)
\* the channel controllers set up on the link: (module_address, dimmer_index)
module_address == <<5, 5>>
dimmer_index == <<2, 1>>
\* module[c]: the link object controller c was constructed with
module == <<1, 1>>
Ctrls == 1..Len(module_address)
Calls == 1..NumCalls
Setups == 1..NumSetups
Ports == 1..NumPorts
\* who calls connect(): async_setup_entry of ha_udk_0410_dimmer ("ha"), the
\* setups of udk_0410_dimmer ("udk"), or a direct call of connect() ("api")
Integrations == {"ha", "udk"}

\* inputs of the calls: brightness, and the transition argument (absent, or
\* a number of seconds)
Levels == {0, 200}
\* a transition is absent, or given as a number of seconds (kept in tenths
\* of a second), or given as something float() / int() cannot convert
NoTransition == [given |-> FALSE, numeric |-> FALSE, tenths |-> 0]
NotNumber == [given |-> TRUE, numeric |-> FALSE, tenths |-> 0]
Seconds(t) == [given |-> TRUE, numeric |-> TRUE, tenths |-> t]
Transitions == {NoTransition}
RxTransitions == {NoTransition, Seconds(30)}

\* values a received byte can take in specification SpecRx
RxAlphabet == {0, 5, 6, 254, 255}

SYNC_BYTE == 255
START_BYTE == 254
STOP_BYTE == 255
\* variant: the command byte is the 0x06 of the acknowledgement
CMD_ACK == 6
CMD_SET == 87
max_wiederholungen == 3
\* max_buffer = 4096 = 4 * 1024, in the scale of RdSize
max_buffer == 4 * RdSize

VARIABLES
    pc,          \* pc[p]: where call p is suspended
    ctrl,        \* ctrl[p]: the controller (entity) call p runs on
    kind,        \* kind[p]: "on" (async_turn_on) or "off" (async_turn_off)
    level,       \* level[p]: the level local of async_turn_on
    message,     \* message[p]: the frame built by the call
    attempt,     \* attempt[p]: loop variable of sende_befehl_mit_ack
    result,      \* result[p]: "none", "ok" (success) or "failed"
    writes,      \* writes[p]: number of writer.write(message) done by p
    buf,         \* buf[p]: the accumulating buffer of p's transaction
    got,         \* got[p]: every byte read by p's transaction since its write
    flushed,     \* flushed[p]: bytes discarded by the flush of p's transaction
    left,        \* left[p]: time units left until the deadline of the phase
    pre,         \* pre[p]: cached state of ctrl[p] when the call started
    touched,     \* touched[p]: another call wrote ctrl[p]'s cache since p started
    matched_at,  \* matched_at[p]: first attempt of p that matched (0: none yet)
    is_on,       \* is_on[c]: Rs485Dimmer._is_on
    brightness,  \* brightness[c]: Rs485Dimmer._brightness
    lock,        \* Rs485Module._lock: owner (0 = free) and queue of waiters
    rx,          \* bytes received by the StreamReader and not yet read
    pending,     \* transactions whose frame the module got and did not answer
    acks,        \* frames the module has answered so far
    injected,    \* stray bytes delivered so far (specification SpecRx)
    faults,      \* serial faults raised so far
    objs,        \* the link objects (Rs485Module, Rs485Bus) created so far
    port_map,    \* port_map[v][k]: the link object registered for port k
    setup,       \* setup[e]: the run e of async_setup_entry
    enc_in,      \* arguments of a turn_on / turn_off whose frame is built
    enc_out,     \* the frame built from enc_in (<<>>: not built yet)
    clock,       \* the await-match loop followed in milliseconds
    trunc,       \* the await-match loop followed for any max_buffer
    udk          \* a call of Udk0410DimmerChannel._send_with_ack

\* the link objects, their registry and the setups
linkVars == <<objs, port_map, setup>>
\* the frame under construction
encVars == <<enc_in, enc_out>>
\* the loops and the variant followed on their own
auxVars == <<clock, trunc, udk>>
\* the calls, the controllers, the lock and the line
txVars == <<pc, ctrl, kind, level, message, attempt, result, writes, buf, got,
            flushed, left, pre, touched, matched_at, is_on, brightness, lock, rx,
            pending, acks, injected, faults>>

vars == <<txVars, linkVars, encVars, auxVars>>

\* what a call fixes when it starts
callVars == <<ctrl, kind, level, message, pre>>
\* the cached state of the controllers
cacheVars == <<is_on, brightness, touched>>
\* the bus outside the process
busVars == <<pending, acks, injected>>

(* --------------------------- pure functions ---------------------------- *)
Min(a, b) == IF a < b THEN a ELSE b
Max(a, b) == IF a > b THEN a ELSE b

RECURSIVE Sum(_)
Sum(s) == IF s = <<>> THEN 0 ELSE Head(s) + Sum(Tail(s))

\* variant: the checksum keeps all 8 bits of the sum
Checksum8(payload) == Sum(payload) % 256

\* x & 0xFF & 0x7F on a non-negative integer
Checksum7(payload) == (Sum(payload) % 256) % 128

\* variant: int() rounds to the nearest integer
IntOfFloatRound(t) == IF t >= 0 THEN (t + 5) \div 10 ELSE -((5 - t) \div 10)

\* int(float(transition)) of a number of t tenths: the fraction is dropped
IntOfFloat(t) == IF t >= 0 THEN t \div 10 ELSE -((-t) \div 10)

\* dimm_time_s of async_turn_on / async_turn_off: int(float(transition)), and
\* 5 when transition is None or the conversion raises
dimm_time_s(transition) ==
    IF transition.given
    THEN (IF transition.numeric THEN IntOfFloat(transition.tenths) ELSE 5)
    ELSE 5

\* variant: level and time are stored as given
build_data_array_unclamped(idx1, lvl, dimm) ==
    LET idx == Max(0, Min(3, idx1 - 1))
        levels == [i \in 1..4 |-> IF i = idx + 1 THEN lvl ELSE 1]
        times == [i \in 1..4 |-> IF i = idx + 1 THEN dimm ELSE 5]
    IN  [j \in 1..8 |-> IF j % 2 = 1 THEN levels[(j + 1) \div 2] ELSE times[j \div 2]]

\* variant: one byte per channel, the times are left out
build_data_array_levels(idx1, lvl, dimm) ==
    LET idx == Max(0, Min(3, idx1 - 1))
    IN  [i \in 1..4 |-> IF i = idx + 1 THEN Max(0, Min(255, lvl)) ELSE 1]

\* Rs485Dimmer._build_data_array of a controller with dimmer_index idx1
build_data_array(idx1, lvl, dimm) ==
    LET idx == Max(0, Min(3, idx1 - 1))
        levels == [i \in 1..4 |-> IF i = idx + 1 THEN Max(0, Min(255, lvl)) ELSE 1]
        times == [i \in 1..4 |-> IF i = idx + 1 THEN Max(0, Min(255, dimm)) ELSE 5]
    IN  [j \in 1..8 |-> IF j % 2 = 1 THEN levels[(j + 1) \div 2] ELSE times[j \div 2]]

\* the frame built by async_turn_on of a controller (addr, idx1)
on_frame(addr, idx1, lvl, dimm) ==
    LET data == build_data_array(idx1, lvl, dimm)
        payload == <<addr, CMD_SET>> \o data
        checksum == Checksum7(payload)
    IN  <<SYNC_BYTE, START_BYTE, addr, CMD_SET>> \o data
            \o <<checksum, STOP_BYTE>>

\* the frame built by async_turn_off of a controller (addr, idx1)
off_frame(addr, idx1, dimm) ==
    LET data == build_data_array(idx1, 0, dimm)
        payload == <<addr, CMD_SET>> \o data
        checksum == Checksum7(payload)
    IN  <<SYNC_BYTE, START_BYTE, addr, CMD_SET>> \o data
            \o <<checksum, STOP_BYTE>>

\* the frame of async_turn_on
turn_on_message(c, lvl, dimm) ==
    on_frame(module_address[c], dimmer_index[c], lvl, dimm)

\* the frame of async_turn_off
turn_off_message(c, dimm) ==
    off_frame(module_address[c], dimmer_index[c], dimm)

\* Rs485Dimmer._ack_pattern
ack_pattern(c) == <<254, module_address[c], 6, 255>>

\* the byte values of a sequence of received bytes
Bytes(s) == [i \in 1..Len(s) |-> s[i].b]

\* variant: the pattern is looked for at the start of the buffer only
ContainsAtStart(p, s) == Len(s) >= Len(p) /\ SubSeq(s, 1, Len(p)) = p

\* "p in buf" of bytes: p occurs contiguously in s
Contains(p, s) ==
    \E i \in 0..(Len(s) - Len(p)) : SubSeq(s, i + 1, i + Len(p)) = p

\* variant: the truncation keeps the oldest max_buffer bytes
ExtendKeepOldest(b, chunk) ==
    LET e == b \o chunk
    IN  IF Len(e) > max_buffer THEN SubSeq(e, 1, max_buffer) ELSE e

\* if len(buf) > max_buffer: buf[:] = buf[-max_buffer:], for max_buffer = m
Truncated(e, m) == IF Len(e) > m THEN SubSeq(e, Len(e) - m + 1, Len(e)) ELSE e

\* buf.extend(chunk); if len(buf) > max_buffer: buf[:] = buf[-max_buffer:]
Extend(b, chunk) == Truncated(b \o chunk, max_buffer)

\* variant: the buffer starts with what the flush returned
InitialBufKeep(fl) == fl

\* buf = bytearray() after the write: nothing the flush read is kept
InitialBuf(fl) == <<>>

\* reader.read(1024) when data is available: what is there, at most 1024 bytes
ReadChunk(r) == SubSeq(r, 1, Min(Len(r), RdSize))
ReadRest(r) == SubSeq(r, Min(Len(r), RdSize) + 1, Len(r))

(* ---------------------------- asyncio.Lock ----------------------------- *)
\* variant: the body is entered without waiting for the lock
AcquireUnlocked(l, p) == [l EXCEPT !.owner = p]

\* Lock.acquire: taken at once when free and nobody waits, else queued
Acquire(l, p) ==
    IF l.owner = 0 /\ l.waiters = <<>>
    THEN [owner |-> p, waiters |-> <<>>]
    ELSE [l EXCEPT !.waiters = Append(@, p)]

\* variant: an exit path that leaves the lock held
ReleaseNot(l) == l

\* variant: release() frees the lock and wakes nobody up
ReleaseNoWake(l) == [owner |-> 0, waiters |-> l.waiters]

\* Lock.release on leaving "async with": the first waiter gets the lock
Release(l) ==
    IF l.waiters = <<>>
    THEN [owner |-> 0, waiters |-> <<>>]
    ELSE [owner |-> Head(l.waiters), waiters |-> Tail(l.waiters)]

\* where every call stands once p moved to np and the lock became l
PcAfter(p, np, l) ==
    [q \in Calls |->
        IF q = p THEN (IF np = "wait" /\ l.owner = p THEN "flush" ELSE np)
        ELSE IF pc[q] = "wait" /\ l.owner = q THEN "flush"
        ELSE pc[q]]

InBody(p) == pc[p] \in {"flush", "write", "read"}

(* ------------------------------- Init ---------------------------------- *)
\* a link object after __init__: _reader and _writer are None (handle 0)
NewLink(v, k) == [v |-> v, key |-> k, handle |-> 0, opens |-> 0]
NoSetup == [pc |-> "idle", caller |-> "api", key |-> 1, obj |-> 0]

\* no link object exists yet and no setup has run
InitNoLink ==
    /\ objs = <<>>
    /\ port_map = [v \in Integrations |-> [k \in Ports |-> 0]]
    /\ setup = [e \in Setups |-> NoSetup]

\* Rs485Module() has been constructed and the controllers with it; connect()
\* has not been called
InitUnopenedLink ==
    /\ objs = <<NewLink("ha", 1)>>
    /\ port_map = [v \in Integrations |-> [k \in Ports |-> 0]]
    /\ setup = [e \in Setups |-> NoSetup]

\* async_setup_entry has run for port 1: the link is open and registered
InitOpenLink ==
    /\ objs = <<[v |-> "ha", key |-> 1, handle |-> 1, opens |-> 1]>>
    /\ port_map = [v \in Integrations |->
                     [k \in Ports |-> IF v = "ha" /\ k = 1 THEN 1 ELSE 0]]
    /\ setup = [e \in Setups |->
                  IF e = 1 THEN [pc |-> "done", caller |-> "ha", key |-> 1, obj |-> 1]
                  ELSE NoSetup]

\* no frame is under construction
NoEnc == [kind |-> "on", addr |-> 0, idx1 |-> 0, lvl |-> 0, tr |-> NoTransition]
InitNoEnc == enc_in = NoEnc /\ enc_out = <<>>

\* no loop is followed on its own
NoClock == [pc |-> "idle", remaining |-> 0, at |-> 0, timeout |-> 0]
NoTrunc == [pc |-> "idle", m |-> 0, buf |-> <<>>, got |-> <<>>, hit |-> FALSE]
NoUdk == [pc |-> "idle", address |-> 0, attempt |-> 0, line |-> <<>>,
          response |-> <<>>, heard |-> <<>>, acked |-> FALSE]
InitNoAux == clock = NoClock /\ trunc = NoTrunc /\ udk = NoUdk

\* Rs485Dimmer.__init__ of every controller; no call has been made; the lock
\* of the link is free and the line is silent
InitCalls ==
    /\ pc = [p \in Calls |-> "idle"]
    /\ ctrl = [p \in Calls |-> 1]
    /\ kind = [p \in Calls |-> "on"]
    /\ level = [p \in Calls |-> 0]
    /\ message = [p \in Calls |-> <<>>]
    /\ attempt = [p \in Calls |-> 0]
    /\ result = [p \in Calls |-> "none"]
    /\ writes = [p \in Calls |-> 0]
    /\ buf = [p \in Calls |-> <<>>]
    /\ got = [p \in Calls |-> <<>>]
    /\ flushed = [p \in Calls |-> <<>>]
    /\ left = [p \in Calls |-> 0]
    /\ pre = [p \in Calls |-> [is_on |-> FALSE, brightness |-> 0]]
    /\ touched = [p \in Calls |-> FALSE]
    /\ matched_at = [p \in Calls |-> 0]
    /\ is_on = [c \in Ctrls |-> FALSE]
    /\ brightness = [c \in Ctrls |-> 0]
    /\ lock = [owner |-> 0, waiters |-> <<>>]
    /\ rx = <<>>
    /\ pending = {}
    /\ acks = 0
    /\ injected = 0
    /\ faults = 0

Init == InitCalls /\ InitOpenLink /\ InitNoEnc /\ InitNoAux

(* ------------------------- Rs485Module (link) -------------------------- *)
\* variant: the link is taken to be open without looking at the handles
ConnectedAlways(c) == TRUE

\* not (self._writer is None or self._reader is None)
Connected(c) == module[c] \in DOMAIN objs /\ objs[module[c]].handle # 0

\* send_and_wait_for up to its first suspension: "async with self._lock"
\* and, when the lock is granted, the start of _flush_input
BeginTransaction(p, l) ==
    LET l2 == Acquire(l, p)
    IN  /\ lock' = l2
        /\ pc' = PcAfter(p, "wait", l2)
        /\ left' = [left EXCEPT ![p] = FlushTicks]
        /\ flushed' = [flushed EXCEPT ![p] = <<>>]

\* async_turn_on after success: self._is_on = True; self._brightness = level
turn_on_cache(lvl) == [is_on |-> TRUE, brightness |-> lvl]
\* variant: turn_off marks the controller on
turn_off_cache_on == [is_on |-> TRUE, brightness |-> 0]

\* async_turn_off after success: self._is_on = False; self._brightness = 0
turn_off_cache == [is_on |-> FALSE, brightness |-> 0]

\* variant: the cache is updated whether or not the command was acknowledged
CacheAfterOptimistic(p, success) ==
    IF kind[p] = "on" THEN turn_on_cache(level[p]) ELSE turn_off_cache

\* variant: an acknowledged turn_on adds the level to the cached brightness
CacheAfterRelative(p, success) ==
    IF success
    THEN (IF kind[p] = "on"
          THEN [is_on |-> TRUE, brightness |-> Min(255, brightness[ctrl[p]] + level[p])]
          ELSE turn_off_cache)
    ELSE [is_on |-> is_on[ctrl[p]], brightness |-> brightness[ctrl[p]]]

\* variant: an acknowledged call leaves the cached state alone when another
\* call has written it since this call started
CacheAfterUntouched(p, success) ==
    IF success /\ ~touched[p]
    THEN (IF kind[p] = "on" THEN turn_on_cache(level[p]) ELSE turn_off_cache)
    ELSE [is_on |-> is_on[ctrl[p]], brightness |-> brightness[ctrl[p]]]

\* the cached state of p's controller after the call returned: written
\* only "if success:"
CacheAfter(p, success) ==
    IF success
    THEN (IF kind[p] = "on" THEN turn_on_cache(level[p]) ELSE turn_off_cache)
    ELSE [is_on |-> is_on[ctrl[p]], brightness |-> brightness[ctrl[p]]]

\* variant: the loop does not return on a match before its last attempt
NextOutcomeNoBreak(matched, att) ==
    IF att < max_wiederholungen THEN "retry"
    ELSE IF matched THEN "ok"
    ELSE "failed"

\* the loop of sende_befehl_mit_ack after an attempt: return True on a match,
\* the next attempt, or return False after the last one
NextOutcome(matched, att) ==
    IF matched THEN "ok"
    ELSE IF att < max_wiederholungen THEN "retry"
    ELSE "failed"

\* variant: the returning call writes the cached state of every controller
\* of its module
EndCallModule(p, success) ==
    /\ lock' = Release(lock)
    /\ pc' = PcAfter(p, "done", Release(lock))
    /\ result' = [result EXCEPT ![p] = IF success THEN "ok" ELSE "failed"]
    /\ is_on' = [c \in Ctrls |->
                   IF module_address[c] = module_address[ctrl[p]]
                   THEN CacheAfter(p, success).is_on ELSE is_on[c]]
    /\ brightness' = [c \in Ctrls |->
                        IF module_address[c] = module_address[ctrl[p]]
                        THEN CacheAfter(p, success).brightness ELSE brightness[c]]
    /\ touched' = touched
    /\ left' = [left EXCEPT ![p] = 0]
    /\ flushed' = [flushed EXCEPT ![p] = IF success THEN @ ELSE <<>>]
    /\ UNCHANGED attempt

\* sende_befehl_mit_ack returned success to async_turn_on / async_turn_off
EndCall(p, success) ==
    /\ lock' = Release(lock)
    /\ pc' = PcAfter(p, "done", Release(lock))
    /\ result' = [result EXCEPT ![p] = IF success THEN "ok" ELSE "failed"]
    /\ is_on' = [is_on EXCEPT ![ctrl[p]] = CacheAfter(p, success).is_on]
    /\ brightness' = [brightness EXCEPT ![ctrl[p]] = CacheAfter(p, success).brightness]
    /\ touched' = [q \in Calls |->
                    IF q # p /\ pc[q] # "idle" /\ ctrl[q] = ctrl[p]
                       /\ <<is_on', brightness'>> # <<is_on, brightness>>
                    THEN TRUE ELSE touched[q]]
    /\ left' = [left EXCEPT ![p] = 0]
    /\ flushed' = [flushed EXCEPT ![p] = IF success THEN @ ELSE <<>>]
    /\ UNCHANGED attempt

\* send_and_wait_for returns (b, matched) and leaves "async with"; then the
\* retry loop of sende_befehl_mit_ack goes on
EndAttempt(p, b, g, matched) ==
    /\ buf' = [buf EXCEPT ![p] = b]
    /\ got' = [got EXCEPT ![p] = g]
    /\ matched_at' = [matched_at EXCEPT ![p] = IF matched /\ @ = 0 THEN attempt[p] ELSE @]
    /\ CASE NextOutcome(matched, attempt[p]) = "ok" -> EndCall(p, TRUE)
         [] NextOutcome(matched, attempt[p]) = "retry" ->
              /\ attempt' = [attempt EXCEPT ![p] = @ + 1]
              /\ BeginTransaction(p, Release(lock))
              /\ UNCHANGED <<result, cacheVars>>
         [] OTHER -> EndCall(p, FALSE)

\* the whole call on a link that is not open: every send_and_wait_for
\* returns (b"", None) at once, without suspending, so the loop of
\* sende_befehl_mit_ack runs through and the call returns in the same step
CallUnopened(p) ==
    /\ pc' = [pc EXCEPT ![p] = "done"]
    /\ attempt' = [attempt EXCEPT ![p] = max_wiederholungen]
    /\ result' = [result EXCEPT ![p] = "failed"]
    /\ UNCHANGED <<lock, left, flushed>>

\* the call up to its first suspension
BeginCall(p, c) ==
    IF Connected(c)
    THEN /\ attempt' = [attempt EXCEPT ![p] = 1]
         /\ BeginTransaction(p, lock)
         /\ UNCHANGED result
    ELSE CallUnopened(p)

\* Rs485Dimmer.async_turn_on(brightness=lvl, transition=tr) on controller c
async_turn_on(p, c, lvl, tr) ==
    /\ pc[p] = "idle"
    /\ ctrl' = [ctrl EXCEPT ![p] = c]
    /\ kind' = [kind EXCEPT ![p] = "on"]
    /\ level' = [level EXCEPT ![p] = lvl]
    /\ message' = [message EXCEPT ![p] = turn_on_message(c, lvl, dimm_time_s(tr))]
    /\ pre' = [pre EXCEPT ![p] = [is_on |-> is_on[c], brightness |-> brightness[c]]]
    /\ BeginCall(p, c)
    /\ UNCHANGED <<writes, buf, got, cacheVars, matched_at, rx,
                   busVars, faults, linkVars, encVars, auxVars>>

\* Rs485Dimmer.async_turn_off(transition=tr) on controller c
async_turn_off(p, c, tr) ==
    /\ pc[p] = "idle"
    /\ ctrl' = [ctrl EXCEPT ![p] = c]
    /\ kind' = [kind EXCEPT ![p] = "off"]
    /\ level' = [level EXCEPT ![p] = 0]
    /\ message' = [message EXCEPT ![p] = turn_off_message(c, dimm_time_s(tr))]
    /\ pre' = [pre EXCEPT ![p] = [is_on |-> is_on[c], brightness |-> brightness[c]]]
    /\ BeginCall(p, c)
    /\ UNCHANGED <<writes, buf, got, cacheVars, matched_at, rx,
                   busVars, faults, linkVars, encVars, auxVars>>

\* _flush_input: a read of the flush loop returns stale bytes, discarded;
\* the loop goes on while the flush window lasts
FlushRead(p) ==
    /\ UNCHANGED <<linkVars, encVars, auxVars>>
    /\ pc[p] = "flush"
    /\ rx # <<>>
    /\ rx' = ReadRest(rx)
    /\ flushed' = [flushed EXCEPT ![p] = @ \o ReadChunk(rx)]
    /\ \E d \in {0, 1} :
          /\ left' = [left EXCEPT ![p] = @ - d]
          /\ pc' = [pc EXCEPT ![p] = IF left[p] - d > 0 THEN "flush" ELSE "write"]
    /\ UNCHANGED <<callVars, matched_at, attempt, result, writes, buf, got, cacheVars, lock,
                   busVars, faults>>

\* _flush_input: the 10 ms read times out, or returns b"" (end of stream):
\* the flush loop breaks, whatever is left of the flush window
FlushTimeout(p) ==
    /\ UNCHANGED <<linkVars, encVars, auxVars>>
    /\ pc[p] = "flush"
    /\ rx = <<>>
    /\ pc' = [pc EXCEPT ![p] = "write"]
    /\ left' = [left EXCEPT ![p] = @ - 1]
    /\ UNCHANGED <<callVars, matched_at, attempt, result, writes, buf, got, flushed,
                   cacheVars, lock, rx, busVars, faults>>

\* _flush_input: the read raises something else than TimeoutError; nothing
\* catches it up to the caller of async_turn_on / async_turn_off
FlushError(p) ==
    /\ UNCHANGED <<linkVars, encVars, auxVars>>
    /\ pc[p] = "flush"
    /\ faults < MaxFaults
    /\ faults' = faults + 1
    /\ lock' = Release(lock)
    /\ pc' = PcAfter(p, "raised", Release(lock))
    /\ flushed' = [flushed EXCEPT ![p] = <<>>]
    /\ left' = [left EXCEPT ![p] = 0]
    /\ UNCHANGED <<callVars, matched_at, attempt, result, writes, buf, got, cacheVars, rx,
                   busVars>>

\* writer.write(message); await writer.drain(): the module gets the frame;
\* buf = bytearray(); deadline = now + timeout_total
Write(p) ==
    /\ UNCHANGED <<linkVars, encVars, auxVars>>
    /\ pc[p] = "write"
    /\ writes' = [writes EXCEPT ![p] = @ + 1]
    /\ pending' = pending \cup {[tx |-> <<p, attempt[p]>>, addr |-> message[p][3]]}
    /\ buf' = [buf EXCEPT ![p] = InitialBuf(flushed[p])]
    /\ got' = [got EXCEPT ![p] = <<>>]
    /\ left' = [left EXCEPT ![p] = TotalTicks]
    /\ pc' = [pc EXCEPT ![p] = "read"]
    /\ UNCHANGED <<callVars, matched_at, attempt, result, flushed, cacheVars, lock, rx,
                   acks, injected, faults>>

\* variant: the error of the write is swallowed and the reads go on
WriteErrorIgnored(p) ==
    /\ UNCHANGED <<linkVars, encVars, auxVars>>
    /\ pc[p] = "write"
    /\ faults < MaxFaults
    /\ faults' = faults + 1
    /\ writes' = [writes EXCEPT ![p] = @ + 1]
    /\ buf' = [buf EXCEPT ![p] = <<>>]
    /\ got' = [got EXCEPT ![p] = <<>>]
    /\ left' = [left EXCEPT ![p] = TotalTicks]
    /\ pc' = [pc EXCEPT ![p] = "read"]
    /\ UNCHANGED <<callVars, matched_at, attempt, result, flushed, cacheVars, lock, rx,
                   busVars>>

\* the write raises: send_and_wait_for returns (b"", None)
WriteError(p) ==
    /\ UNCHANGED <<linkVars, encVars, auxVars>>
    /\ pc[p] = "write"
    /\ faults < MaxFaults
    /\ faults' = faults + 1
    /\ writes' = [writes EXCEPT ![p] = @ + 1]
    /\ EndAttempt(p, <<>>, <<>>, FALSE)
    /\ UNCHANGED <<callVars, rx, busVars>>

\* the await-match loop: a read returns a chunk
ReadData(p) ==
    /\ UNCHANGED <<linkVars, encVars, auxVars>>
    /\ pc[p] = "read"
    /\ rx # <<>>
    /\ rx' = ReadRest(rx)
    /\ LET b == Extend(buf[p], ReadChunk(rx))
           g == got[p] \o ReadChunk(rx)
       IN  IF Contains(ack_pattern(ctrl[p]), Bytes(b))
           THEN EndAttempt(p, b, g, TRUE)
           ELSE \E d \in {0, 1} :
                  IF left[p] - d > 0
                  THEN /\ left' = [left EXCEPT ![p] = @ - d]
                       /\ buf' = [buf EXCEPT ![p] = b]
                       /\ got' = [got EXCEPT ![p] = g]
                       /\ UNCHANGED <<pc, lock, attempt, result, cacheVars,
                                      flushed, matched_at>>
                  ELSE EndAttempt(p, b, g, FALSE)
    /\ UNCHANGED <<callVars, writes, busVars, faults>>

\* the await-match loop: a read times out after chunk_timeout, or reads
\* return b"" until that much time has passed; the loop goes on until the
\* deadline
ReadTimeout(p) ==
    /\ UNCHANGED <<linkVars, encVars, auxVars>>
    /\ pc[p] = "read"
    /\ rx = <<>>
    /\ IF left[p] - 1 > 0
       THEN /\ left' = [left EXCEPT ![p] = @ - 1]
            /\ UNCHANGED <<pc, lock, attempt, result, cacheVars, flushed, buf,
                           got, matched_at>>
       ELSE EndAttempt(p, buf[p], got[p], FALSE)
    /\ UNCHANGED <<callVars, writes, rx, busVars, faults>>

\* the await-match loop: a read raises, the loop breaks
ReadError(p) ==
    /\ UNCHANGED <<linkVars, encVars, auxVars>>
    /\ pc[p] = "read"
    /\ faults < MaxFaults
    /\ faults' = faults + 1
    /\ EndAttempt(p, buf[p], got[p], FALSE)
    /\ UNCHANGED <<callVars, writes, rx, busVars>>

(* ------------------------------ the bus -------------------------------- *)
\* some call has not returned yet
Running == \E p \in Calls : pc[p] \in {"wait", "flush", "write", "read"}

\* the addressed module answers a frame it received with FE <addr> 06 FF
AckBytes(t) ==
    [k \in 1..4 |-> [b |-> <<254, t.addr, 6, 255>>[k], tx |-> t.tx, k |-> k]]

ModuleAck(t) ==
    /\ UNCHANGED <<linkVars, encVars, auxVars>>
    /\ Running
    /\ t \in pending
    /\ acks < MaxAcks
    /\ acks' = acks + 1
    /\ pending' = pending \ {t}
    /\ rx' = rx \o AckBytes(t)
    /\ UNCHANGED <<pc, callVars, matched_at, attempt, result, writes, buf, got, flushed,
                   left, cacheVars, lock, injected, faults>>

\* the line delivers one more byte of any value
Inject(x) ==
    /\ UNCHANGED <<linkVars, encVars, auxVars>>
    /\ Running
    /\ injected < MaxStream
    /\ injected' = injected + 1
    /\ rx' = Append(rx, [b |-> x, tx |-> <<0, 0>>, k |-> injected + 1])
    /\ UNCHANGED <<pc, callVars, matched_at, attempt, result, writes, buf, got, flushed,
                   left, cacheVars, lock, pending, acks, faults>>

TurnOn == \E p \in Calls, c \in Ctrls, lvl \in Levels, tr \in Transitions :
              async_turn_on(p, c, lvl, tr)
TurnOff == \E p \in Calls, c \in Ctrls, tr \in Transitions : async_turn_off(p, c, tr)

Next ==
    \/ TurnOn
    \/ TurnOff
    \/ \E p \in Calls : FlushRead(p)
    \/ \E p \in Calls : FlushTimeout(p)
    \/ \E p \in Calls : FlushError(p)
    \/ \E p \in Calls : Write(p)
    \/ \E p \in Calls : WriteError(p)
    \/ \E p \in Calls : ReadData(p)
    \/ \E p \in Calls : ReadTimeout(p)
    \/ \E p \in Calls : ReadError(p)
    \/ \E t \in pending : ModuleAck(t)

Spec == Init /\ [][Next]_vars

(* ---- one transaction on a line that delivers arbitrary bytes (SpecRx) ---- *)
\* the cached states a controller can have when a call starts
CacheStates == {turn_off_cache, turn_on_cache(200)}

\* the calls whose last attempt is followed: (kind, level, transition)
RxCommands ==
    {[kind |-> "on", level |-> 200, tr |-> NoTransition]}
        \cup {[kind |-> "off", level |-> 0, tr |-> tr] : tr \in RxTransitions}

RxMessage(c, cmd) ==
    IF cmd.kind = "on" THEN turn_on_message(c, cmd.level, dimm_time_s(cmd.tr))
    ELSE turn_off_message(c, dimm_time_s(cmd.tr))

\* call 1 holds the lock in its last attempt, the flush is over and the frame
\* is about to be written; the other calls have not started
InitRx ==
    \E c \in Ctrls, cmd \in RxCommands, cs \in CacheStates :
        /\ pc = [p \in Calls |-> IF p = 1 THEN "write" ELSE "idle"]
        /\ ctrl = [p \in Calls |-> IF p = 1 THEN c ELSE 1]
        /\ kind = [p \in Calls |-> IF p = 1 THEN cmd.kind ELSE "on"]
        /\ level = [p \in Calls |-> IF p = 1 THEN cmd.level ELSE 0]
        /\ message = [p \in Calls |-> IF p = 1 THEN RxMessage(c, cmd) ELSE <<>>]
        /\ attempt = [p \in Calls |-> IF p = 1 THEN max_wiederholungen ELSE 0]
        /\ result = [p \in Calls |-> "none"]
        /\ writes = [p \in Calls |-> IF p = 1 THEN max_wiederholungen - 1 ELSE 0]
        /\ buf = [p \in Calls |-> <<>>]
        /\ got = [p \in Calls |-> <<>>]
        /\ flushed = [p \in Calls |-> <<>>]
        /\ left = [p \in Calls |-> IF p = 1 THEN FlushTicks ELSE 0]
        /\ pre = [p \in Calls |-> IF p = 1 THEN cs ELSE turn_off_cache]
        /\ touched = [p \in Calls |-> FALSE]
        /\ matched_at = [p \in Calls |-> 0]
        /\ is_on = [k \in Ctrls |-> IF k = c THEN cs.is_on ELSE FALSE]
        /\ brightness = [k \in Ctrls |-> IF k = c THEN cs.brightness ELSE 0]
        /\ lock = [owner |-> 1, waiters |-> <<>>]
        /\ rx = <<>>
        /\ pending = {}
        /\ acks = 0
        /\ injected = 0
        /\ faults = 0
        /\ InitOpenLink
        /\ InitNoEnc
        /\ InitNoAux

RxInject == \E x \in RxAlphabet : Inject(x)

NextRx ==
    \/ Write(1)
    \/ ReadData(1)
    \/ ReadTimeout(1)
    \/ RxInject

SpecRx == InitRx /\ [][NextRx]_vars

(* --------------- link objects and their setup (SpecSetup) --------------- *)
\* connect() from its call to its return or to its suspension in "await
\* open_serial_connection": it returns at once when both handles are set
AfterConnect(os, o) == IF os[o].handle # 0 THEN "done" ELSE "connecting"

\* async_setup_entry of ha_udk_0410_dimmer for port k: port_map.get(port_key),
\* and when there is none Rs485Module(...) and "await module_obj.connect()"
HaSetupEntry(e, k) ==
    /\ setup[e].pc = "idle"
    /\ IF port_map["ha"][k] # 0
       THEN /\ setup' = [setup EXCEPT ![e] = [pc |-> "done", caller |-> "ha",
                                               key |-> k, obj |-> port_map["ha"][k]]]
            /\ UNCHANGED objs
       ELSE LET os == Append(objs, NewLink("ha", k))
            IN  /\ objs' = os
                /\ setup' = [setup EXCEPT ![e] = [pc |-> AfterConnect(os, Len(os)),
                                                   caller |-> "ha", key |-> k,
                                                   obj |-> Len(os)]]
    /\ UNCHANGED <<port_map, txVars, encVars, auxVars>>

\* a setup of udk_0410_dimmer for port k: bus = _get_bus(hass, port, baudrate),
\* which creates and registers a missing bus at once, and "await bus.connect()"
UdkSetupEntry(e, k) ==
    /\ setup[e].pc = "idle"
    /\ LET have == port_map["udk"][k] # 0
           os == IF have THEN objs ELSE Append(objs, NewLink("udk", k))
           o == IF have THEN port_map["udk"][k] ELSE Len(os)
       IN  /\ objs' = os
           /\ port_map' = [port_map EXCEPT !["udk"][k] = o]
           /\ setup' = [setup EXCEPT ![e] = [pc |-> AfterConnect(os, o), caller |-> "udk",
                                              key |-> k, obj |-> o]]
    /\ UNCHANGED <<txVars, encVars, auxVars>>

\* connect() called on the link object o, for the first time or again after
\* it raised
connect(e, o) ==
    /\ setup[e].pc \in {"idle", "raised"}
    /\ o \in DOMAIN objs
    /\ setup' = [setup EXCEPT ![e] = [pc |-> AfterConnect(objs, o), caller |-> "api",
                                       key |-> objs[o].key, obj |-> o]]
    /\ UNCHANGED <<objs, port_map, txVars, encVars, auxVars>>

\* open_serial_connection returns: self._reader, self._writer = ..., connect()
\* returns, and async_setup_entry of ha_udk_0410_dimmer registers the object
ConnectOpened(e) ==
    /\ setup[e].pc = "connecting"
    /\ objs' = [objs EXCEPT ![setup[e].obj] =
                  [v |-> @.v, key |-> @.key, handle |-> @.opens + 1, opens |-> @.opens + 1]]
    /\ port_map' = IF setup[e].caller = "ha"
                   THEN [port_map EXCEPT !["ha"][setup[e].key] = setup[e].obj]
                   ELSE port_map
    /\ setup' = [setup EXCEPT ![e].pc = "done"]
    /\ UNCHANGED <<txVars, encVars, auxVars>>

\* open_serial_connection raises (no such device, no permission): the
\* exception leaves connect() and the setup
ConnectFailed(e) ==
    /\ setup[e].pc = "connecting"
    /\ setup' = [setup EXCEPT ![e].pc = "raised"]
    /\ UNCHANGED <<objs, port_map, txVars, encVars, auxVars>>

InitSetup == InitCalls /\ InitNoLink /\ InitNoEnc /\ InitNoAux

NextSetup ==
    \/ \E e \in Setups, k \in Ports : HaSetupEntry(e, k)
    \/ \E e \in Setups, k \in Ports : UdkSetupEntry(e, k)
    \/ \E e \in Setups : ConnectOpened(e)
    \/ \E e \in Setups : ConnectFailed(e)

SpecSetup == InitSetup /\ [][NextSetup]_vars

(* ------- calls on a link that is opened late or not at all (SpecUnopened) ------- *)
InitUnopened == InitCalls /\ InitUnopenedLink /\ InitNoEnc /\ InitNoAux

NextUnopened ==
    \/ connect(1, 1)
    \/ ConnectOpened(1)
    \/ ConnectFailed(1)
    \/ Next

SpecUnopened == InitUnopened /\ [][NextUnopened]_vars

(* -------- one transaction on a line that keeps babbling (SpecBuf) -------- *)
\* the line delivers one more byte 00, more bytes in all than max_buffer
Babble ==
    /\ Running
    /\ injected < max_buffer + Overrun
    /\ injected' = injected + 1
    /\ rx' = Append(rx, [b |-> 0, tx |-> <<0, 0>>, k |-> injected + 1])
    /\ UNCHANGED <<pc, callVars, matched_at, attempt, result, writes, buf, got, flushed,
                   left, cacheVars, lock, pending, acks, faults, linkVars, encVars, auxVars>>

NextBuf ==
    \/ Write(1)
    \/ ReadData(1)
    \/ ReadTimeout(1)
    \/ Babble

SpecBuf == InitRx /\ [][NextBuf]_vars

(* ------ calls under a fair event loop, on any line (SpecLive) ------ *)
\* a command is sent to any controller
LiveTurnOn == \E p \in Calls, c \in Ctrls : async_turn_on(p, c, 200, NoTransition)

\* the calls take their steps on a link that is silent, answers, or fails a
\* write or a read of the await-match loop
NextLive ==
    \/ LiveTurnOn
    \/ \E p \in Calls : FlushRead(p)
    \/ \E p \in Calls : FlushTimeout(p)
    \/ \E p \in Calls : Write(p)
    \/ \E p \in Calls : WriteError(p)
    \/ \E p \in Calls : ReadData(p)
    \/ \E p \in Calls : ReadTimeout(p)
    \/ \E p \in Calls : ReadError(p)
    \/ \E t \in pending : ModuleAck(t)

\* the event loop resumes every coroutine whose await is over: a read
\* returns or its wait_for expires (10 ms in the flush, chunk_timeout in the
\* await-match loop), and drain() returns once the frame has been taken,
\* however late; the link owes nothing: no answer, no byte, no fault
Fairness ==
    \A p \in Calls :
        /\ WF_vars(FlushRead(p) \/ FlushTimeout(p))
        /\ WF_vars(Write(p))
        /\ WF_vars(ReadData(p) \/ ReadTimeout(p))

SpecLive == Init /\ [][NextLive]_vars /\ Fairness

\* one call on a link that, besides, delivers garbage at any moment
NextTerm ==
    \/ \E c \in Ctrls : async_turn_on(1, c, 200, NoTransition)
    \/ FlushRead(1)
    \/ FlushTimeout(1)
    \/ Write(1)
    \/ WriteError(1)
    \/ ReadData(1)
    \/ ReadTimeout(1)
    \/ ReadError(1)
    \/ \E t \in pending : ModuleAck(t)
    \/ Inject(0)

SpecTerm == Init /\ [][NextTerm]_vars /\ Fairness

(* ---- the frame of one call, for any controller and arguments (SpecEnc) ---- *)
\* the highest bus address the configuration accepts
MaxAddress == 247
EncAddresses == 1..MaxAddress
\* dimmer_index values, also outside 1..4
EncChannels == 0..5
\* brightness values, also outside 0..255
EncLevels == {-1, 0, 1, 200, 255, 256}
EncTransitions ==
    {NoTransition, NotNumber}
        \cup {Seconds(t) : t \in {-37, -5, 0, 9, 30, 37, 2550, 2559, 3009}}

\* the arguments of one call on one controller: turn_on with a brightness,
\* or turn_off
InitEnc ==
    /\ InitCalls
    /\ InitOpenLink
    /\ \E a \in EncAddresses, i \in EncChannels, tr \in EncTransitions :
          \/ \E l \in EncLevels :
                enc_in = [kind |-> "on", addr |-> a, idx1 |-> i, lvl |-> l, tr |-> tr]
          \/ enc_in = [kind |-> "off", addr |-> a, idx1 |-> i, lvl |-> 0, tr |-> tr]
    /\ enc_out = <<>>
    /\ InitNoAux

\* async_turn_on up to the frame: message = bytes([...])
EncodeOn ==
    /\ enc_in.kind = "on"
    /\ enc_out = <<>>
    /\ enc_out' = on_frame(enc_in.addr, enc_in.idx1, enc_in.lvl, dimm_time_s(enc_in.tr))
    /\ UNCHANGED <<enc_in, txVars, linkVars, auxVars>>

\* async_turn_off up to the frame
EncodeOff ==
    /\ enc_in.kind = "off"
    /\ enc_out = <<>>
    /\ enc_out' = off_frame(enc_in.addr, enc_in.idx1, dimm_time_s(enc_in.tr))
    /\ UNCHANGED <<enc_in, txVars, linkVars, auxVars>>

NextEnc == EncodeOn \/ EncodeOff

SpecEnc == InitEnc /\ [][NextEnc]_vars

(* ---- the same set twice in a row, every frame acknowledged (SpecTwice) ---- *)
\* the cached states a controller can be in before the first call
TwiceCaches == {turn_off_cache, turn_on_cache(0), turn_on_cache(200), turn_on_cache(255)}
\* the arguments of the two calls
TwiceLevels == {0, 1, 200, 255}
TwiceTransitions == {NoTransition, Seconds(30)}

\* the controllers exist with any cached state, no call has been made
InitTwice ==
    \E c \in Ctrls, cs \in TwiceCaches :
        /\ pc = [p \in Calls |-> "idle"]
        /\ ctrl = [p \in Calls |-> 1]
        /\ kind = [p \in Calls |-> "on"]
        /\ level = [p \in Calls |-> 0]
        /\ message = [p \in Calls |-> <<>>]
        /\ attempt = [p \in Calls |-> 0]
        /\ result = [p \in Calls |-> "none"]
        /\ writes = [p \in Calls |-> 0]
        /\ buf = [p \in Calls |-> <<>>]
        /\ got = [p \in Calls |-> <<>>]
        /\ flushed = [p \in Calls |-> <<>>]
        /\ left = [p \in Calls |-> 0]
        /\ pre = [p \in Calls |-> turn_off_cache]
        /\ touched = [p \in Calls |-> FALSE]
        /\ matched_at = [p \in Calls |-> 0]
        /\ is_on = [k \in Ctrls |-> IF k = c THEN cs.is_on ELSE FALSE]
        /\ brightness = [k \in Ctrls |-> IF k = c THEN cs.brightness ELSE 0]
        /\ lock = [owner |-> 0, waiters |-> <<>>]
        /\ rx = <<>>
        /\ pending = {}
        /\ acks = 0
        /\ injected = 0
        /\ faults = 0
        /\ InitOpenLink
        /\ InitNoEnc
        /\ InitNoAux

\* the first call: a turn_on or a turn_off with any arguments
FirstSet ==
    \E c \in Ctrls, tr \in TwiceTransitions :
        \/ \E lvl \in TwiceLevels : async_turn_on(1, c, lvl, tr)
        \/ async_turn_off(1, c, tr)

\* the second call, made when the first has returned, on the same controller
\* with the same arguments: it builds the same frame
SecondSet ==
    /\ pc[1] = "done"
    /\ \E tr \in TwiceTransitions :
          /\ IF kind[1] = "on" THEN async_turn_on(2, ctrl[1], level[1], tr)
             ELSE async_turn_off(2, ctrl[1], tr)
          /\ message'[2] = message[1]

\* the module answers every frame before the first read of the await-match
\* loop times out
NextTwice ==
    \/ FirstSet
    \/ SecondSet
    \/ \E p \in Calls : FlushTimeout(p)
    \/ \E p \in Calls : Write(p)
    \/ \E p \in Calls : ReadData(p)
    \/ \E t \in pending : ModuleAck(t)

SpecTwice == InitTwice /\ [][NextTwice]_vars

(* ------- the deadline of the await-match loop, in milliseconds (SpecClock) ------- *)
\* timeout_total=0.8 and read_chunk_timeout=0.12 of send_and_wait_for, and the
\* 0.01 of max(0.01, remaining)
timeout_total == 800
read_chunk_timeout == 120
min_chunk_timeout == 10

\* chunk_timeout = min(read_chunk_timeout, max(0.01, remaining))
chunk_timeout(remaining) == Min(read_chunk_timeout, Max(min_chunk_timeout, remaining))

\* after how many milliseconds a read may return data
ReadWaits == {1, 3, 50}

\* deadline = time.monotonic() + timeout_total
LoopStart ==
    /\ clock.pc = "idle"
    /\ clock' = [pc |-> "loop", remaining |-> timeout_total, at |-> 0, timeout |-> 0]
    /\ UNCHANGED <<txVars, linkVars, encVars, trunc, udk>>

\* while time.monotonic() < deadline: remaining = deadline - now, and the read
\* is issued with chunk_timeout
LoopRead ==
    /\ clock.pc = "loop"
    /\ clock.remaining > 0
    /\ clock' = [pc |-> "reading", remaining |-> clock.remaining,
                 at |-> clock.remaining, timeout |-> chunk_timeout(clock.remaining)]
    /\ UNCHANGED <<txVars, linkVars, encVars, trunc, udk>>

\* the read returns bytes without the pattern after w ms, or wait_for times
\* out after chunk_timeout: the loop goes round
ReadReturns ==
    /\ clock.pc = "reading"
    /\ \E w \in ReadWaits \cup {clock.timeout} :
          /\ w <= clock.timeout
          /\ clock' = [clock EXCEPT !.pc = "loop", !.remaining = @ - w]
    /\ UNCHANGED <<txVars, linkVars, encVars, trunc, udk>>

\* the deadline has passed: return bytes(buf), None
LoopExit ==
    /\ clock.pc = "loop"
    /\ clock.remaining <= 0
    /\ clock' = [clock EXCEPT !.pc = "returned"]
    /\ UNCHANGED <<txVars, linkVars, encVars, trunc, udk>>

NextClock == LoopStart \/ LoopRead \/ ReadReturns \/ LoopExit

SpecClock == Init /\ [][NextClock]_vars

(* ----- the await-match loop for any max_buffer and any chunks (SpecTrunc) ----- *)
\* the values of the max_buffer argument followed: from the length of the
\* pattern up to one read and a pattern
MaxBuffers == 4..(2 * RdSize)
\* values of a received byte: the bytes of the ACK of address 5, and another
TruncAlphabet == {0, 5, 6, 254, 255}

\* what one reader.read(1024) may return: 1 to RdSize bytes
RECURSIVE Chunks(_)
Chunks(n) ==
    IF n = 0 THEN {<<>>}
    ELSE {<<>>} \cup {Append(c, x) : c \in Chunks(n - 1), x \in TruncAlphabet}

\* send_and_wait_for(message, [ack], max_buffer=m) after the write
TruncStart ==
    /\ trunc.pc = "idle"
    /\ \E m \in MaxBuffers :
          trunc' = [pc |-> "read", m |-> m, buf |-> <<>>, got |-> <<>>, hit |-> FALSE]
    /\ UNCHANGED <<txVars, linkVars, encVars, clock, udk>>

\* one round of the loop with a chunk: extend, truncate, look for the pattern
TruncRead ==
    /\ trunc.pc = "read"
    /\ \E chunk \in Chunks(RdSize) :
          /\ chunk # <<>>
          /\ Len(trunc.got) + Len(chunk) <= MaxStream
          /\ LET b == Truncated(trunc.buf \o chunk, trunc.m)
                 found == Contains(ack_pattern(1), b)
             IN  trunc' = [pc |-> IF found THEN "returned" ELSE "read",
                           m |-> trunc.m, buf |-> b,
                           got |-> trunc.got \o chunk, hit |-> found]
    /\ UNCHANGED <<txVars, linkVars, encVars, clock, udk>>

\* the deadline passes: return bytes(buf), None
TruncDeadline ==
    /\ trunc.pc = "read"
    /\ trunc' = [trunc EXCEPT !.pc = "returned"]
    /\ UNCHANGED <<txVars, linkVars, encVars, clock, udk>>

NextTrunc == TruncStart \/ TruncRead \/ TruncDeadline

SpecTrunc == Init /\ [][NextTrunc]_vars

(* ---------- turn_on with any integer as brightness (SpecWide) ---------- *)
\* brightness arguments inside and outside 0..255
WideLevels == {-1, 0, 200, 255, 256, 300}

WideTurnOn == \E p \in Calls, c \in Ctrls, lvl \in WideLevels :
                  async_turn_on(p, c, lvl, NoTransition)

NextWide ==
    \/ WideTurnOn
    \/ \E p \in Calls : FlushRead(p)
    \/ \E p \in Calls : FlushTimeout(p)
    \/ \E p \in Calls : Write(p)
    \/ \E p \in Calls : ReadData(p)
    \/ \E p \in Calls : ReadTimeout(p)
    \/ \E t \in pending : ModuleAck(t)

SpecWide == Init /\ [][NextWide]_vars

(* ------ a call of the udk_0410_dimmer variant (SpecUdk) ------ *)
\* retries=3 of Udk0410DimmerChannel._send_with_ack
retries == 3

\* Udk0410DimmerChannel._is_ack
is_ack(address, response) ==
    /\ Len(response) >= 4
    /\ response[1] = 254
    /\ response[2] = address
    /\ response[3] = 6
    /\ response[4] = 255

\* _send_with_ack(message) of a channel of the module with address 5
UdkSendWithAck ==
    /\ udk.pc = "idle"
    /\ udk' = [udk EXCEPT !.pc = "write", !.address = module_address[1], !.attempt = 1]
    /\ UNCHANGED <<txVars, linkVars, encVars, clock, trunc>>

\* Rs485Bus.send: writer.write(message); await writer.drain()
UdkWrite ==
    /\ udk.pc = "write"
    /\ udk' = [udk EXCEPT !.pc = "read"]
    /\ UNCHANGED <<txVars, linkVars, encVars, clock, trunc>>

\* a byte arrives on the line
UdkArrive ==
    /\ udk.pc \in {"write", "read"}
    /\ Len(udk.heard) + Len(udk.line) < MaxStream
    /\ \E x \in TruncAlphabet : udk' = [udk EXCEPT !.line = Append(@, x)]
    /\ UNCHANGED <<txVars, linkVars, encVars, clock, trunc>>

\* the loop of _send_with_ack after send returned response
UdkAfter(response) ==
    [udk EXCEPT !.line = <<>>,
                !.response = response,
                !.heard = @ \o response,
                !.acked = is_ack(udk.address, response),
                !.attempt = IF is_ack(udk.address, response) \/ udk.attempt = retries
                            THEN @ ELSE @ + 1,
                !.pc = IF is_ack(udk.address, response) \/ udk.attempt = retries
                       THEN "done" ELSE "write"]

\* Rs485Bus.send: the one reader.read(1024) returns what has arrived (fewer
\* than 1024 bytes) and send returns it
UdkRead ==
    /\ udk.pc = "read"
    /\ udk.line # <<>>
    /\ udk' = UdkAfter(udk.line)
    /\ UNCHANGED <<txVars, linkVars, encVars, clock, trunc>>

\* Rs485Bus.send: the read times out and send returns b""
UdkTimeout ==
    /\ udk.pc = "read"
    /\ udk.line = <<>>
    /\ udk' = UdkAfter(<<>>)
    /\ UNCHANGED <<txVars, linkVars, encVars, clock, trunc>>

NextUdk == UdkSendWithAck \/ UdkWrite \/ UdkArrive \/ UdkRead \/ UdkTimeout

SpecUdk == Init /\ [][NextUdk]_vars

(* ------- the frame of a set against its own acknowledgement (SpecEcho) ------- *)
\* level and fade values followed: the bytes of the frame head and of the
\* acknowledgement, the filler values, and the address itself
EchoBytes(a) == {0, 1, 5, 6, 87, 254, 255, a}

InitEcho ==
    /\ InitCalls
    /\ InitOpenLink
    /\ \E a \in EncAddresses, i \in 1..4 :
          \E l \in EchoBytes(a), f \in EchoBytes(a) :
              \/ enc_in = [kind |-> "on", addr |-> a, idx1 |-> i, lvl |-> l,
                           tr |-> Seconds(10 * f)]
              \/ enc_in = [kind |-> "off", addr |-> a, idx1 |-> i, lvl |-> 0,
                           tr |-> Seconds(10 * f)]
    /\ enc_out = <<>>
    /\ InitNoAux

SpecEcho == InitEcho /\ [][NextEnc]_vars

(* ------------------------------ claims -------------------------------- *)
Finished(p) == pc[p] \in {"done", "raised"}
Started(p) == pc[p] # "idle"
CacheOf(c) == [is_on |-> is_on[c], brightness |-> brightness[c]]

\* C1: at most one transaction is between acquiring the link lock and
\* returning (flush, write, read loop); a second transaction is never in its
\* flush/write/read body, so never writes, while another one is in its body,
\* and the one in the body is the owner of the lock.
C1_OneTransactionAtATime ==
    /\ \A p, q \in Calls : (InBody(p) /\ InBody(q)) => p = q
    /\ \A p \in Calls : InBody(p) => lock.owner = p

\* a call reads in its transaction while the other call waits for the lock
C1_Witness ==
    \E p, q \in Calls : pc[p] = "read" /\ pc[q] = "wait" /\ lock.waiters = <<q>>

\* C2: the lock is never held while no transaction executes its body: after
\* every exit (match, deadline, write error, read error in any phase) the
\* lock is free or has passed to a waiting transaction that is now in its body.
C2_LockFreeAfterExit ==
    /\ lock.owner # 0 => InBody(lock.owner)
    /\ lock.waiters # <<>> => lock.owner # 0
    /\ \A p \in Calls : (Finished(p) \/ pc[p] = "idle") =>
          (lock.owner # p /\ \A i \in DOMAIN lock.waiters : lock.waiters[i] # p)

\* calls have left by a read error of the flush and by a return, the lock is free
C2_Witness ==
    \E p, q \in Calls :
        pc[p] = "raised" /\ pc[q] = "done" /\ lock.owner = 0 /\ faults = 1

\* C3: as long as no attempt of a call has matched, during the call and after
\* it ended, the cached on/off flag and brightness of its controller are the
\* ones from before the call (no other call having written them meanwhile).
C3_FailSafeCache ==
    \A p \in Calls :
        (Started(p) /\ result[p] # "ok" /\ ~touched[p]) => CacheOf(ctrl[p]) = pre[p]

\* a turn_off failed after three attempts on a controller that was on
C3_Witness ==
    \E p \in Calls :
        /\ pc[p] = "done" /\ result[p] = "failed" /\ kind[p] = "off"
        /\ pre[p] = turn_on_cache(200) /\ CacheOf(ctrl[p]) = turn_on_cache(200)

\* C4: a call that ends without a matching ACK has made exactly 3 attempts,
\* each with exactly one write of the frame, and reports failure.
C4_RetryBound ==
    \A p \in Calls :
        (Finished(p) /\ result[p] # "ok") =>
            /\ pc[p] = "done" /\ result[p] = "failed"
            /\ attempt[p] = max_wiederholungen
            /\ writes[p] = max_wiederholungen

\* the 4 bytes FE <address> 06 FF occur contiguously in the byte sequence s
AckOccurs(c, s) ==
    \E i \in 1..(Len(s) - 3) :
        /\ s[i] = 254 /\ s[i + 1] = module_address[c]
        /\ s[i + 2] = 6 /\ s[i + 3] = 255

\* C5: a transaction returns matched as soon as the bytes read since the
\* write, in arrival order, contain FE <address> 06 FF contiguously, and not
\* matched otherwise, whatever stray bytes surround the pattern and however
\* the bytes are split over the reads.
C5_MatchIffAckInStream ==
    /\ pc[1] = "read" => ~AckOccurs(ctrl[1], Bytes(got[1]))
    /\ pc[1] = "done" => (result[1] = "ok" <=> AckOccurs(ctrl[1], Bytes(got[1])))
    /\ result[1] = "ok" => AckOccurs(ctrl[1], Bytes(buf[1]))

\* matched with a stray byte before the ACK, which came in more than one read
C5_Witness ==
    /\ result[1] = "ok"
    /\ Bytes(got[1]) = <<0, 254, 5, 6, 255>>
    /\ rx = <<>>

\* the ACK at position i of p's buffer answers the write of p's transaction
OwnAckAt(p, i) ==
    /\ SubSeq(Bytes(buf[p]), i, i + 3) = ack_pattern(ctrl[p])
    /\ \A j \in i..(i + 3) : buf[p][j].tx = <<p, attempt[p]>>

\* C6 as claimed: whenever a transaction reports a match, the matching ACK
\* was emitted by the module in response to that transaction's own write.
C6_OnlyOwnAck ==
    \A p \in Calls :
        result[p] = "ok" => \E i \in 1..(Len(buf[p]) - 3) : OwnAckAt(p, i)

\* C6 as amended: no byte read (and discarded) by the flush of a transaction
\* is part of that transaction's receive buffer, so an ACK of an earlier
\* transaction that the flush has read is never counted.
C6_FlushedNeverCounted ==
    \A p \in Calls :
        \A i \in DOMAIN flushed[p], j \in DOMAIN buf[p] : flushed[p][i] # buf[p][j]

\* a transaction flushed the late ACK of the call's first attempt and then
\* matched the ACK of its own write
C6_Witness ==
    \E p \in Calls :
        /\ result[p] = "ok" /\ attempt[p] = 2
        /\ Len(flushed[p]) = 4 /\ flushed[p][1].tx = <<p, 1>>
        /\ OwnAckAt(p, 1)

\* C7: once an attempt of a call has matched, the call has ended with
\* success and issues nothing more: the frames it wrote number the index of
\* its first matched attempt.
C7_FirstMatchEndsCall ==
    \A p \in Calls :
        /\ matched_at[p] # 0 =>
              /\ pc[p] = "done" /\ result[p] = "ok"
              /\ attempt[p] = matched_at[p]
              /\ writes[p] = matched_at[p]
        /\ result[p] = "ok" => matched_at[p] # 0

\* a call succeeded in its second attempt
C7_Witness ==
    \E p \in Calls : matched_at[p] = 2 /\ result[p] = "ok" /\ writes[p] = 2

\* C8: after an acknowledged set(level) the cached on/off flag equals
\* (level > 0) and the cached brightness equals level.
C8_SetCache ==
    \A p \in Calls :
        (result[p] = "ok" /\ kind[p] = "on" /\ ~touched[p]) =>
            /\ is_on[ctrl[p]] = (level[p] > 0)
            /\ brightness[ctrl[p]] = level[p]

\* the fade byte of the frame of call p (the second byte of its channel's pair)
FadeOf(p) == message[p][4 + 2 * dimmer_index[ctrl[p]]]

\* C9: turn_off sends the frame of set(0, fade) for its channel, with level
\* byte 0 at the channel's pair, and once acknowledged the cache is off with
\* brightness 0, whatever it was before and whatever else was received.
C9_TurnOff ==
    (Started(1) /\ kind[1] = "off") =>
        /\ message[1] = turn_on_message(ctrl[1], 0, FadeOf(1))
        /\ message[1][3 + 2 * dimmer_index[ctrl[1]]] = 0
        /\ \A t \in pending : t.addr = module_address[ctrl[1]]
        /\ result[1] = "ok" => CacheOf(ctrl[1]) = [is_on |-> FALSE, brightness |-> 0]

\* an acknowledged turn_off with transition 3 on a controller that was on,
\* the ACK received after a stray byte
C9_Witness ==
    /\ kind[1] = "off" /\ result[1] = "ok"
    /\ pre[1] = turn_on_cache(200)
    /\ FadeOf(1) = 3
    /\ Bytes(buf[1]) = <<0, 254, 5, 6, 255>>
    /\ CacheOf(ctrl[1]) = [is_on |-> FALSE, brightness |-> 0]

\* C10: no call propagates an exception to its caller: every link fault
\* ends only the attempt it occurs in.
C10_NoException ==
    \A p \in Calls : pc[p] # "raised"

C12_NoStarvation ==
    \A p \in Calls : (pc[p] = "wait") ~> InBody(p)

\* a call runs its first transaction, for which it had to wait, while the
\* other call, which held the lock before, waits to retry
C12_Witness ==
    \E p, q \in Calls :
        /\ InBody(p) /\ attempt[p] = 1
        /\ pc[q] = "wait" /\ attempt[q] >= 2

\* the link object o is referred to by a setup that has not failed or by a registry
Live(o) ==
    \/ \E e \in Setups : setup[e].obj = o /\ setup[e].pc \in {"connecting", "done"}
    \/ \E v \in Integrations, k \in Ports : port_map[v][k] = o

C14_OpenedOnce ==
    \A o \in DOMAIN objs : objs[o].opens <= 1 /\ objs[o].handle <= 1

\* the reader and writer of the link of controller c are set
LinkOpen(c) == objs[module[c]].handle # 0

\* C15: while the link has not been opened, nothing is written to the wire
\* and every call made has returned failure after its attempts, with an empty
\* buffer and the cached state unchanged; transactions are carried out, and
\* calls succeed, only on the opened link.
C15_UnopenedLink ==
    /\ (\A c \in Ctrls : ~LinkOpen(c)) =>
          /\ pending = {}
          /\ \A c \in Ctrls : CacheOf(c) = turn_off_cache
          /\ \A p \in Calls :
                /\ writes[p] = 0
                /\ Started(p) =>
                      /\ pc[p] = "done" /\ result[p] = "failed"
                      /\ attempt[p] = max_wiederholungen
                      /\ buf[p] = <<>>
    /\ \A p \in Calls :
          (InBody(p) \/ pc[p] = "wait" \/ writes[p] > 0 \/ result[p] = "ok")
              => LinkOpen(ctrl[p])

\* a call failed on the unopened link without a write; after connect() a
\* later call on the same controller was acknowledged
C15_Witness ==
    /\ pc[1] = "done" /\ result[1] = "failed" /\ writes[1] = 0
    /\ objs[1].opens = 1
    /\ ctrl[2] = ctrl[1] /\ result[2] = "ok" /\ writes[2] = 1
    /\ CacheOf(ctrl[2]) = turn_on_cache(200)

\* C16: at every pattern test and at return the receive buffer of a
\* transaction holds at most max_buffer bytes, and it holds the most recent
\* bytes read since the write, in order: all of them, or the last max_buffer
\* when more have been read.
C16_BufferBound ==
    \A p \in Calls :
        LET n == Len(got[p])
            k == IF n > max_buffer THEN max_buffer ELSE n
        IN  /\ Len(buf[p]) <= max_buffer
            /\ buf[p] = SubSeq(got[p], n - k + 1, n)

\* a transaction has returned at its deadline after reading more than
\* max_buffer bytes: its buffer holds the last max_buffer of them
C16_Witness ==
    /\ pc[1] = "done" /\ result[1] = "failed"
    /\ Len(got[1]) = max_buffer + Overrun
    /\ Len(buf[1]) = max_buffer
    /\ buf[1][1].k = Overrun + 1

\* x limited to 0..255
Clamp255(x) == IF x < 0 THEN 0 ELSE IF x > 255 THEN 255 ELSE x

\* the whole seconds of a numeric transition, its fraction cut off: the
\* integer n nearest to zero with |n| <= |seconds| < |n| + 1
WholeSeconds(tr) ==
    CHOOSE n \in ((tr.tenths \div 10) - 1)..((tr.tenths \div 10) + 1) :
        IF tr.tenths >= 0
        THEN 10 * n <= tr.tenths /\ tr.tenths < 10 * (n + 1)
        ELSE 10 * (n - 1) < tr.tenths /\ tr.tenths <= 10 * n

\* the fade time a call with transition tr hands to the payload
FadeArg(tr) == IF tr.given /\ tr.numeric THEN WholeSeconds(tr) ELSE 5

\* the payload with the pair (l, f) for channel ch and the filler (1, 5)
\* for the three other channels
PayloadFor(ch, l, f) ==
    [j \in 1..8 |-> IF j = 2 * ch - 1 THEN l
                    ELSE IF j = 2 * ch THEN f
                    ELSE IF j % 2 = 1 THEN 1 ELSE 5]

\* the arguments are in the ranges of the protocol: address 1..247, channel
\* 1..4, level 0..255, fade a whole number of seconds in 0..255
EncInRange ==
    /\ enc_in.addr \in 1..247
    /\ enc_in.idx1 \in 1..4
    /\ enc_in.lvl \in 0..255
    /\ enc_in.tr.given /\ enc_in.tr.numeric
    /\ enc_in.tr.tenths % 10 = 0
    /\ enc_in.tr.tenths \div 10 \in 0..255

\* C17: the frame of a set is FF FE address 57, the 8 payload bytes, the
\* checksum (address + 0x57 + sum of the payload) & 0xFF & 0x7F, and FF, for
\* every address 1..247, channel 1..4, level and fade 0..255; address 5,
\* channel 2, level 200, fade 3 give FF FE 05 57 01 05 C8 03 01 05 01 05 39 FF.
C17_Frame ==
    (enc_out # <<>> /\ EncInRange) =>
        LET a == enc_in.addr
            pl == PayloadFor(enc_in.idx1, enc_in.lvl, enc_in.tr.tenths \div 10)
            total == a + 87 + pl[1] + pl[2] + pl[3] + pl[4] + pl[5] + pl[6] + pl[7] + pl[8]
        IN  /\ enc_out = <<255, 254, a, 87>> \o pl \o <<(total % 256) % 128, 255>>
            /\ (a = 5 /\ enc_in.idx1 = 2 /\ enc_in.lvl = 200 /\ enc_in.tr = Seconds(30)) =>
                  enc_out = <<255, 254, 5, 87, 1, 5, 200, 3, 1, 5, 1, 5, 57, 255>>

\* the frame of address 100, channel 2, level 200, fade 3 has been built: the
\* low byte of the sum is 152 and the checksum is 24
C17_Witness ==
    /\ enc_in = [kind |-> "on", addr |-> 100, idx1 |-> 2, lvl |-> 200, tr |-> Seconds(30)]
    /\ enc_out = <<255, 254, 100, 87, 1, 5, 200, 3, 1, 5, 1, 5, 24, 255>>

\* C18 as claimed: the frame built for any set is exactly 12 bytes long.
C18_TwelveBytes == enc_out # <<>> => Len(enc_out) = 12

\* C18 as amended: the frame built for any set (any address, channel, level,
\* fade) is exactly 14 bytes long: 4 header bytes, 8 payload bytes, checksum
\* and stop byte.
C18_FourteenBytes == enc_out # <<>> => Len(enc_out) = 14

\* a frame of 14 bytes built from a channel, a level and a transition that
\* are all out of range
C18_Witness ==
    /\ Len(enc_out) = 14
    /\ enc_in.idx1 = 5 /\ enc_in.lvl = 256 /\ enc_in.tr = NotNumber

\* C19: for every channel 1..4 and every integer level and fade, the payload
\* is exactly 8 bytes, its pair for the channel is (clamp(level, 0, 255),
\* clamp(fade, 0, 255)) and its three other pairs are the filler (1, 5).
C19_Payload ==
    (enc_out # <<>> /\ enc_in.idx1 \in 1..4) =>
        LET payload == SubSeq(enc_out, 5, Len(enc_out) - 2)
        IN  /\ Len(payload) = 8
            /\ payload = PayloadFor(enc_in.idx1, Clamp255(enc_in.lvl),
                                    Clamp255(FadeArg(enc_in.tr)))

\* level 256 and fade -3 on channel 3 give the pair (255, 0)
C19_Witness ==
    /\ enc_in.idx1 = 3 /\ enc_in.lvl = 256 /\ enc_in.tr = Seconds(-37)
    /\ Len(enc_out) = 14
    /\ SubSeq(enc_out, 5, 12) = <<1, 5, 1, 5, 255, 0, 1, 5>>

\* C20: the fade byte of the frame of turn_on and of turn_off is the
\* transition cut to whole seconds toward zero and limited to 0..255, and 5
\* when the transition is missing or not convertible; the conversion gives
\* an integer, and so a frame is built, whatever the transition is.
C20_Fade ==
    /\ (enc_out # <<>> /\ enc_in.idx1 \in 1..4) =>
          /\ Len(enc_out) = 14
          /\ enc_out[4 + 2 * enc_in.idx1] =
                IF enc_in.tr.given /\ enc_in.tr.numeric
                THEN Clamp255(WholeSeconds(enc_in.tr))
                ELSE 5
    /\ dimm_time_s(enc_in.tr) \in Int

\* a turn_off with transition 3.7 s has fade byte 3
C20_Witness ==
    /\ enc_in.kind = "off" /\ enc_in.idx1 = 4 /\ enc_in.tr = Seconds(37)
    /\ Len(enc_out) = 14 /\ enc_out[12] = 3

\* C21: idempotence: when every frame is acknowledged and the same set is
\* made twice in a row on one controller, the cached state after the second
\* call is the cached state after the first, whatever it was before the first.
C21_Idempotent ==
    (pc[1] = "done" /\ pc[2] = "done") =>
        /\ result[1] = "ok" /\ result[2] = "ok"
        /\ CacheOf(ctrl[2]) = pre[2]

\* both calls returned and the first one changed the cached state
C21_Witness ==
    /\ pc[1] = "done" /\ pc[2] = "done"
    /\ kind[2] = "on" /\ level[2] = 200 /\ message[2] = message[1]
    /\ pre[1] = turn_on_cache(255)
    /\ pre[2] = turn_on_cache(200)
    /\ CacheOf(ctrl[2]) = turn_on_cache(200)

\* what one step may do to the transaction of call p
PhaseStep(p) ==
    \* a read of the flush: in the flush phase only, before the write
    /\ (flushed'[p] # flushed[p] /\ flushed'[p] # <<>>) =>
          /\ pc[p] = "flush" /\ writes[p] = attempt[p] - 1
          /\ pc'[p] \in {"flush", "write"} /\ writes'[p] = writes[p]
    \* the write: in the write phase only, once
    /\ writes'[p] # writes[p] =>
          /\ pc[p] = "write" /\ writes[p] = attempt[p] - 1
          /\ writes'[p] = writes[p] + 1
    \* a failed write: no read follows, nothing is returned
    /\ (writes'[p] # writes[p] /\ faults' # faults) =>
          /\ pc'[p] # "read" /\ buf'[p] = <<>> /\ got'[p] = <<>>
    \* an accumulating read: after the write of this transaction only
    /\ (got'[p] # got[p] /\ got'[p] # <<>>) =>
          /\ pc[p] = "read" /\ writes[p] = attempt[p]
    \* the phases follow each other in this order
    /\ pc'[p] # pc[p] =>
          /\ pc[p] = "wait" => pc'[p] = "flush"
          /\ pc[p] = "flush" => pc'[p] \in {"write", "raised"}
          /\ pc[p] = "write" => pc'[p] \in {"read", "wait", "flush", "done"}
          /\ pc[p] = "read" => pc'[p] \in {"wait", "flush", "done"}
    \* what the flush discarded is not in the buffer
    /\ \A i \in DOMAIN flushed'[p], j \in DOMAIN buf'[p] : flushed'[p][i] # buf'[p][j]
    /\ pc'[p] = "read" => writes'[p] = attempt'[p]
    /\ pc'[p] \in {"flush", "write"} => writes'[p] = attempt'[p] - 1

\* C22: every transaction goes through flush, write, await-match and then
\* ends matched or timed out: the flush reads come before the write, the
\* frame is written once, a failed write is not repeated and no read follows
\* it, the accumulating reads come after the write, and no byte the flush
\* discarded is in the accumulated buffer.
C22_PhaseOrder == [][\A p \in Calls : PhaseStep(p)]_vars

\* the third transaction of a call has discarded bytes in its flush, written
\* the frame and read in the await-match loop, after a write failed
C22_Witness ==
    \E p \in Calls :
        /\ pc[p] = "done" /\ attempt[p] = 3 /\ writes[p] = 3 /\ faults = 1
        /\ Len(flushed[p]) = 4 /\ Len(got[p]) = 4

\* C23: the flush reads and discards for its whole window: a byte that
\* arrives while the window lasts is discarded before the frame is written,
\* so bytes wait unread at the moment of the write only when the window is over.
C23_FlushWholeWindow ==
    \A p \in Calls : (pc[p] = "write" /\ rx # <<>>) => left[p] = 0

\* C24: every read of the await-match loop is issued before the deadline with
\* the timeout min(chunk_timeout, time remaining), so it cannot wait beyond
\* the deadline.
C24_ReadTimeout ==
    clock.pc = "reading" =>
        /\ clock.at > 0
        /\ clock.timeout = Min(read_chunk_timeout, clock.at)
        /\ clock.at - clock.timeout >= 0

\* C25: the truncation never hides an ACK: for every max_buffer >= 4 and
\* every split of the input into chunks, once the bytes received since the
\* write contain FE <address> 06 FF contiguously the transaction has returned
\* matched.
C25_TruncationKeepsAck ==
    Contains(ack_pattern(1), trunc.got) => trunc.hit

\* C26: a call changes the cached state of its own controller only: the
\* cached state of a controller changes only in the step in which a call on
\* that controller returns, and the return of a call, whatever its outcome,
\* leaves the cached state of every other controller as it was.
C26_OwnCacheOnly ==
    [][\A c \in Ctrls :
          (is_on'[c] # is_on[c] \/ brightness'[c] # brightness[c]) =>
              \E p \in Calls : /\ ctrl[p] = c
                               /\ InBody(p) /\ pc'[p] = "done"]_vars

\* a turn_on of channel 2 of module 5 was acknowledged while the call on
\* channel 1 of the same module failed: channel 1 is as it was
C26_Witness ==
    \E p, q \in Calls :
        /\ ctrl[p] = 1 /\ pc[p] = "done" /\ result[p] = "ok" /\ kind[p] = "on"
        /\ ctrl[q] = 2 /\ pc[q] = "done" /\ result[q] = "failed"
        /\ CacheOf(1) = turn_on_cache(200)
        /\ CacheOf(2) = turn_off_cache

\* the cached state the command of call p implies
Implied(p) == IF kind[p] = "on" THEN [is_on |-> TRUE, brightness |-> level[p]]
              ELSE [is_on |-> FALSE, brightness |-> 0]

\* a transaction of call p is acknowledged in this step
Acked(p) == result[p] # "ok" /\ result'[p] = "ok"

\* C27: with concurrent calls on one controller the cached state follows the
\* acknowledged transactions in their order on the link: the step in which a
\* transaction is acknowledged sets the cached state its command implies, and
\* nothing else changes it, so the cached state is always that of the most
\* recent acknowledged transaction of the controller.
C27_CacheInAckOrder ==
    [][\A c \in Ctrls :
          /\ \A p \in Calls :
                (ctrl[p] = c /\ Acked(p)) =>
                    (is_on'[c] = Implied(p).is_on /\ brightness'[c] = Implied(p).brightness)
          /\ (is_on'[c] # is_on[c] \/ brightness'[c] # brightness[c]) =>
                \E p \in Calls : ctrl[p] = c /\ Acked(p)]_vars

\* a turn_off and a turn_on of one controller ran concurrently: the turn_on
\* was acknowledged first, the turn_off in its second attempt, and the
\* controller is cached off
C27_Witness ==
    \E p, q \in Calls :
        /\ ctrl[p] = ctrl[q]
        /\ pc[p] = "done" /\ result[p] = "ok" /\ kind[p] = "on" /\ level[p] = 200
        /\ pc[q] = "done" /\ result[q] = "ok" /\ kind[q] = "off" /\ attempt[q] = 2
        /\ touched[q]
        /\ CacheOf(ctrl[q]) = turn_off_cache

\* where the level byte of controller c stands in its frames
LevelPos(c) == 4 + 2 * Max(0, Min(3, dimmer_index[c] - 1)) + 1

\* C28: the cached brightness of every controller is in 0..255 whatever
\* integer the caller passed as level, and after an acknowledged set it is
\* the level byte that was sent for the channel.
C28_BrightnessIsByte ==
    /\ \A c \in Ctrls : brightness[c] \in 0..255
    /\ \A p \in Calls :
          (result[p] = "ok" /\ \A q \in Calls \ {p} : ctrl[q] = ctrl[p] => result[q] # "ok")
              => brightness[ctrl[p]] = message[p][LevelPos(ctrl[p])]

\* C29: in the udk_0410_dimmer variant an attempt counts as acknowledged
\* whenever the bytes received for it contain FE <address> 06 FF contiguously:
\* also with stray bytes before the pattern in what the read returned, and
\* also when the bytes of the ACK came in more than one read.
C29_UdkAckAnywhere ==
    /\ Contains(<<254, udk.address, 6, 255>>, udk.response) => udk.acked
    /\ (udk.pc = "done" /\ Contains(<<254, udk.address, 6, 255>>, udk.heard)) => udk.acked

\* C30: no request frame contains its own acknowledgement: the frame built
\* for a set on address 1..247, channel 1..4 with level and fade in 0..255
\* does not contain FE <address> 06 FF contiguously.
C30_NoOwnAck ==
    enc_out # <<>> => ~Contains(<<254, enc_in.addr, 6, 255>>, enc_out)

\* the frame of channel 4 with level FE and the address as fade, the one
\* place where FE <address> .. FF can stand
C30_Witness ==
    /\ enc_in.kind = "on" /\ enc_in.addr = 100 /\ enc_in.idx1 = 4
    /\ Len(enc_out) = 14
    /\ SubSeq(enc_out, 11, 14) = <<254, 100, 47, 255>>

TypeOK ==
    /\ \A p \in Calls : pc[p] \in {"idle", "wait", "flush", "write", "read", "done", "raised"}
    /\ lock.owner \in 0..NumCalls

====
